---- MODULE Spec2Model ----
(***************************************************************************)
(* VKTriangle (src/Main.cpp): bootstrap of a Vulkan context.               *)
(*                                                                         *)
(* main() runs VKTriangle::run(): initWindow, initVulkan (createInstance,  *)
(* createDebugCallback, getPhysicalDevice, createLogicalDevice), mainLoop, *)
(* cleanup.  Every failing step throws std::runtime_error, which main      *)
(* catches, prints and turns into EXIT_FAILURE.                            *)
(*                                                                         *)
(* The driver is the environment: the list of physical devices, each with  *)
(* its list of queue families (queueCount, queueFlags), and the results of *)
(* the vkCreate... calls.                                                  *)
(***************************************************************************)
EXTENDS Integers, Sequences, FiniteSets, TLC

VARIABLES
    pc,                     \* position of main()/run()
    enableValidationLayers, \* the build: FALSE under NDEBUG, TRUE otherwise
    driver,                 \* driver[h]: the queue families of device handle h
    m_phyDevice,            \* VK_NULL_HANDLE or a device handle
    queueFamilyIndex,       \* VkDeviceQueueCreateInfo::queueFamilyIndex (uint32_t)
    acquired,               \* resources created so far, in order of creation
    released,               \* resources destroyed so far, in order of destruction
    steps,                  \* bootstrap operations started so far, in order
    exception,              \* what() of the std::runtime_error in flight, or NoException
    failure,                \* which check threw it
    stderr,                 \* lines written to std::cerr by main
    exitStatus,             \* main's return value, or Running
    probe                   \* last result of a direct call of the selection functions

vars == <<pc, enableValidationLayers, driver, m_phyDevice, queueFamilyIndex,
          acquired, released, steps, exception, failure, stderr, exitStatus, probe>>

----------------------------------------------------------------------------
(* Bounds of the model *)

MaxDevices == 3

MaxTotalFamilies == 2

MaxValidationMessages == 1

----------------------------------------------------------------------------
(* Program constants *)

VK_QUEUE_GRAPHICS_BIT == 1

VK_QUEUE_COMPUTE_BIT == 2

VK_QUEUE_TRANSFER_BIT == 4

VK_NULL_HANDLE == 0

EXIT_SUCCESS == 0

EXIT_FAILURE == 1

NoException == "none"

Running == "running"

NotSet == "not set"

NoProbe == [op |-> "none"]

----------------------------------------------------------------------------
(* Bit operations on VkQueueFlags *)

RECURSIVE BitAnd(_, _)
BitAnd(a, b) ==
    IF a = 0 \/ b = 0 THEN 0
    ELSE (IF a % 2 = 1 /\ b % 2 = 1 THEN 1 ELSE 0) + 2 * BitAnd(a \div 2, b \div 2)

BitOr(a, b) == a + b - BitAnd(a, b)

\* int -> uint32_t conversion of the assignment queueFamilyIndex = index
\* (two's complement), the 32-bit value kept as its two 16-bit halves
ToUint32(i) == [hi |-> (i \div 65536) % 65536, lo |-> i % 65536]

----------------------------------------------------------------------------
(* The driver's answers *)

QueueFamily(count, flags) == [queueCount |-> count, queueFlags |-> flags]

\* the queue family descriptors a driver reports in this model
QueueFamilyValues ==
    { QueueFamily(0, 0),
      QueueFamily(0, BitOr(VK_QUEUE_GRAPHICS_BIT, VK_QUEUE_TRANSFER_BIT)),
      QueueFamily(1, VK_QUEUE_GRAPHICS_BIT),
      QueueFamily(1, VK_QUEUE_COMPUTE_BIT),
      QueueFamily(1, VK_QUEUE_TRANSFER_BIT),
      QueueFamily(1, BitOr(VK_QUEUE_GRAPHICS_BIT, VK_QUEUE_TRANSFER_BIT)) }

RECURSIVE FamilyLists(_)
FamilyLists(n) ==
    IF n = 0 THEN { <<>> }
    ELSE { <<f>> \o r : f \in QueueFamilyValues, r \in FamilyLists(n - 1) }

\* device lists of at most n devices with at most k queue families in all
RECURSIVE DeviceLists(_, _)
DeviceLists(n, k) ==
    IF n = 0 THEN { <<>> }
    ELSE { <<>> } \cup
         UNION { { <<d>> \o r : d \in FamilyLists(j), r \in DeviceLists(n - 1, k - j) }
                 : j \in 0..k }

VkResults == { "VK_SUCCESS", "VK_ERROR_INITIALIZATION_FAILED" }

\* what vkEnumeratePhysicalDevices writes to phyDevices.data()
RECURSIVE Handles(_)
Handles(n) == IF n = 0 THEN <<>> ELSE Append(Handles(n - 1), n)

vkEnumeratePhysicalDevices == Handles(Len(driver))

\* what vkGetPhysicalDeviceQueueFamilyProperties writes to queueFamilies.data()
vkGetPhysicalDeviceQueueFamilyProperties(phyDevice) == driver[phyDevice]

\* VK_EXT_debug_report is in ppEnabledExtensionNames only in a validation build
DebugReportExtensionEnabled == enableValidationLayers

\* vkGetInstanceProcAddr of the two debug-report entry points: the loader
\* hands out an extension's entry points only for an enabled extension
DebugReportProcPresent == DebugReportExtensionEnabled

----------------------------------------------------------------------------
(* Selection *)

\* the for loop of findQueueFamily, from position index on
RECURSIVE ScanQueueFamilies(_, _, _)
ScanQueueFamilies(queueFamilies, familyFlags, index) ==
    IF index >= Len(queueFamilies) THEN -1
    ELSE IF /\ queueFamilies[index + 1].queueCount > 0
            /\ BitAnd(queueFamilies[index + 1].queueFlags, familyFlags) # 0
         THEN index
         ELSE ScanQueueFamilies(queueFamilies, familyFlags, index + 1)

findQueueFamily(phyDevice, familyFlags) ==
    ScanQueueFamilies(vkGetPhysicalDeviceQueueFamilyProperties(phyDevice), familyFlags, 0)

isPhyiscalDeviceSuitable(phyDevice) ==
    ~ (findQueueFamily(phyDevice, BitOr(VK_QUEUE_GRAPHICS_BIT, VK_QUEUE_TRANSFER_BIT)) < 0)

\* the for loop of findOptimalPhysicalDevice, from position i on; the result
\* is the returned bool and the value left in *optimalPhyDevice
RECURSIVE ScanPhysicalDevices(_, _, _)
ScanPhysicalDevices(phyDevices, optimalPhyDevice, i) ==
    IF i > Len(phyDevices) THEN [found |-> FALSE, optimalPhyDevice |-> optimalPhyDevice]
    ELSE IF isPhyiscalDeviceSuitable(phyDevices[i])
         THEN [found |-> TRUE, optimalPhyDevice |-> phyDevices[i]]
         ELSE ScanPhysicalDevices(phyDevices, optimalPhyDevice, i + 1)

\* a findOptimalPhysicalDevice that stores each candidate in *optimalPhyDevice
\* before it tests it
RECURSIVE ScanPhysicalDevices_StoresCandidates(_, _, _)
ScanPhysicalDevices_StoresCandidates(phyDevices, optimalPhyDevice, i) ==
    IF i > Len(phyDevices) THEN [found |-> FALSE, optimalPhyDevice |-> optimalPhyDevice]
    ELSE IF isPhyiscalDeviceSuitable(phyDevices[i])
         THEN [found |-> TRUE, optimalPhyDevice |-> phyDevices[i]]
         ELSE ScanPhysicalDevices_StoresCandidates(phyDevices, phyDevices[i], i + 1)

findOptimalPhysicalDevice_StoresCandidates(phyDevices, optimalPhyDevice) ==
    ScanPhysicalDevices_StoresCandidates(phyDevices, optimalPhyDevice, 1)

findOptimalPhysicalDevice(phyDevices, optimalPhyDevice) ==
    ScanPhysicalDevices(phyDevices, optimalPhyDevice, 1)

----------------------------------------------------------------------------
(* The program *)

Init ==
    /\ pc = "initWindow"
    /\ enableValidationLayers \in BOOLEAN
    /\ driver \in DeviceLists(MaxDevices, MaxTotalFamilies)
    /\ m_phyDevice = VK_NULL_HANDLE
    /\ queueFamilyIndex = NotSet
    /\ acquired = <<>>
    /\ released = <<>>
    /\ steps = <<>>
    /\ exception = NoException
    /\ failure = NoException
    /\ stderr = <<>>
    /\ exitStatus = Running
    /\ probe = NoProbe

\* throw std::runtime_error(what)
Throw(kind, what) ==
    /\ exception' = what
    /\ failure' = kind
    /\ pc' = "catch"

initWindow ==
    /\ pc = "initWindow"
    /\ steps' = Append(steps, "initWindow")
    /\ acquired' = acquired \o <<"glfw", "window">>
    /\ pc' = "createInstance"
    /\ UNCHANGED <<enableValidationLayers, driver, m_phyDevice, queueFamilyIndex,
                   released, exception, failure, stderr, exitStatus, probe>>

createInstance ==
    /\ pc = "createInstance"
    /\ steps' = Append(steps, "createInstance")
    /\ \E checkValidationLayerSupport \in BOOLEAN, vkCreateInstance \in VkResults :
          IF enableValidationLayers /\ ~ checkValidationLayerSupport
          THEN /\ Throw("ValidationLayerUnavailable",
                        "validation layers requested, but not available!")
               /\ UNCHANGED acquired
          ELSE IF vkCreateInstance # "VK_SUCCESS"
          THEN /\ Throw("InstanceCreationFailed", "failed to create instance!")
               /\ UNCHANGED acquired
          ELSE /\ acquired' = Append(acquired, "instance")
               /\ pc' = "createDebugCallback"
               /\ UNCHANGED <<exception, failure>>
    /\ UNCHANGED <<enableValidationLayers, driver, m_phyDevice, queueFamilyIndex,
                   released, stderr, exitStatus, probe>>

\* the result of CreateDebugReportCallbackEXT, given what the driver's
\* vkCreateDebugReportCallbackEXT returns when it is called
CreateDebugReportCallbackEXT(func) ==
    IF DebugReportProcPresent THEN func ELSE "VK_ERROR_EXTENSION_NOT_PRESENT"

\* a createDebugCallback without its early return for non-validation builds
createDebugCallback_Unguarded ==
    /\ pc = "createDebugCallback"
    /\ steps' = Append(steps, "createDebugCallback")
    /\ \E func \in VkResults :
          IF CreateDebugReportCallbackEXT(func) # "VK_SUCCESS"
          THEN /\ Throw("DebugCallbackInstallFailed", "failed to set up debug callback!")
               /\ UNCHANGED acquired
          ELSE /\ acquired' = Append(acquired, "callback")
               /\ pc' = "getPhysicalDevice"
               /\ UNCHANGED <<exception, failure>>
    /\ UNCHANGED <<enableValidationLayers, driver, m_phyDevice, queueFamilyIndex,
                   released, stderr, exitStatus, probe>>

createDebugCallback ==
    /\ pc = "createDebugCallback"
    /\ IF ~ enableValidationLayers
       THEN /\ pc' = "getPhysicalDevice"
            /\ UNCHANGED <<steps, acquired, exception, failure>>
       ELSE /\ steps' = Append(steps, "createDebugCallback")
            /\ \E func \in VkResults :
                  IF CreateDebugReportCallbackEXT(func) # "VK_SUCCESS"
                  THEN /\ Throw("DebugCallbackInstallFailed",
                                "failed to set up debug callback!")
                       /\ UNCHANGED acquired
                  ELSE /\ acquired' = Append(acquired, "callback")
                       /\ pc' = "getPhysicalDevice"
                       /\ UNCHANGED <<exception, failure>>
    /\ UNCHANGED <<enableValidationLayers, driver, m_phyDevice, queueFamilyIndex,
                   released, stderr, exitStatus, probe>>

getPhysicalDevice ==
    /\ pc = "getPhysicalDevice"
    /\ LET deviceCount == Len(vkEnumeratePhysicalDevices)
           phyDevices == vkEnumeratePhysicalDevices
           r == findOptimalPhysicalDevice(phyDevices, m_phyDevice)
       IN  IF deviceCount = 0
           THEN /\ steps' = Append(steps, "enumeratePhysicalDevices")
                /\ Throw("NoSuitableDevice", "failed to find any GPU with Vulkan support!")
                /\ UNCHANGED m_phyDevice
           ELSE /\ steps' = steps \o <<"enumeratePhysicalDevices", "findOptimalPhysicalDevice">>
                /\ m_phyDevice' = r.optimalPhyDevice
                /\ IF ~ r.found
                   THEN Throw("NoSuitableDevice", "failed to find a suitable GPU!")
                   ELSE /\ pc' = "createLogicalDevice"
                        /\ UNCHANGED <<exception, failure>>
    /\ UNCHANGED <<enableValidationLayers, driver, queueFamilyIndex, acquired,
                   released, stderr, exitStatus, probe>>

createLogicalDevice ==
    /\ pc = "createLogicalDevice"
    /\ steps' = Append(steps, "createLogicalDevice")
    /\ LET index == findQueueFamily(m_phyDevice, VK_QUEUE_GRAPHICS_BIT)
       IN  queueFamilyIndex' = ToUint32(index)
    /\ \E vkCreateDevice \in VkResults :
          IF vkCreateDevice # "VK_SUCCESS"
          THEN /\ Throw("LogicalDeviceCreationFailed", "failed to create logical device!")
               /\ UNCHANGED acquired
          ELSE /\ acquired' = Append(acquired, "device")
               /\ pc' = "mainLoop"
               /\ UNCHANGED <<exception, failure>>
    /\ UNCHANGED <<enableValidationLayers, driver, m_phyDevice,
                   released, stderr, exitStatus, probe>>

\* the loop ends when glfwWindowShouldClose(m_window)
mainLoop ==
    /\ pc = "mainLoop"
    /\ steps' = Append(steps, "mainLoop")
    /\ pc' = "cleanup"
    /\ UNCHANGED <<enableValidationLayers, driver, m_phyDevice, queueFamilyIndex,
                   acquired, released, exception, failure, stderr, exitStatus, probe>>

\* a DestroyDebugReportCallbackEXT that calls the entry point unchecked
DestroyDebugReportCallbackEXT_Unchecked == <<"callback">>

\* what DestroyDebugReportCallbackEXT destroys: it calls the driver's
\* vkDestroyDebugReportCallbackEXT only if the loader hands it out
DestroyDebugReportCallbackEXT ==
    IF DebugReportProcPresent THEN <<"callback">> ELSE <<>>

cleanup ==
    /\ pc = "cleanup"
    /\ steps' = Append(steps, "cleanup")
    /\ released' = released \o <<"device">> \o DestroyDebugReportCallbackEXT
                            \o <<"instance">> \o <<"window", "glfw">>
    /\ pc' = "return"
    /\ UNCHANGED <<enableValidationLayers, driver, m_phyDevice, queueFamilyIndex,
                   acquired, exception, failure, stderr, exitStatus, probe>>

\* the callback the validation layer calls from inside Vulkan calls
debugCallback ==
    /\ pc \in {"getPhysicalDevice", "createLogicalDevice", "mainLoop", "cleanup"}
    /\ \E i \in 1..Len(acquired) : acquired[i] = "callback"
    /\ Len(stderr) < MaxValidationMessages
    /\ stderr' = Append(stderr, "validation layer: msg")
    /\ UNCHANGED <<pc, enableValidationLayers, driver, m_phyDevice, queueFamilyIndex,
                   acquired, released, steps, exception, failure, exitStatus, probe>>

\* a catch block that prints the message and falls through to return EXIT_SUCCESS
mainCatch_FallsThrough ==
    /\ pc = "catch"
    /\ stderr' = Append(stderr, exception)
    /\ exception' = NoException
    /\ exitStatus' = EXIT_SUCCESS
    /\ pc' = "exited"
    /\ UNCHANGED <<enableValidationLayers, driver, m_phyDevice, queueFamilyIndex,
                   acquired, released, steps, failure, probe>>

\* catch (const std::runtime_error& e) in main
mainCatch ==
    /\ pc = "catch"
    /\ stderr' = Append(stderr, exception)
    /\ exception' = NoException
    /\ exitStatus' = EXIT_FAILURE
    /\ pc' = "exited"
    /\ UNCHANGED <<enableValidationLayers, driver, m_phyDevice, queueFamilyIndex,
                   acquired, released, steps, failure, probe>>

\* system("pause"); return EXIT_SUCCESS; in main
mainReturn ==
    /\ pc = "return"
    /\ exitStatus' = EXIT_SUCCESS
    /\ pc' = "exited"
    /\ UNCHANGED <<enableValidationLayers, driver, m_phyDevice, queueFamilyIndex,
                   acquired, released, steps, exception, failure, stderr, probe>>

Next ==
    \/ initWindow
    \/ createInstance
    \/ createDebugCallback
    \/ getPhysicalDevice
    \/ createLogicalDevice
    \/ mainLoop
    \/ cleanup
    \/ debugCallback
    \/ mainCatch
    \/ mainReturn

Spec == Init /\ [][Next]_vars

----------------------------------------------------------------------------
(* The selection functions called directly, any number of times, on an      *)
(* unchanged driver                                                         *)

ProbeFlags ==
    { 0, VK_QUEUE_GRAPHICS_BIT, BitOr(VK_QUEUE_GRAPHICS_BIT, VK_QUEUE_TRANSFER_BIT) }

CallFindQueueFamily ==
    /\ \E phyDevice \in 1..Len(driver), familyFlags \in ProbeFlags :
          probe' = [op |-> "findQueueFamily", phyDevice |-> phyDevice,
                    familyFlags |-> familyFlags,
                    index |-> findQueueFamily(phyDevice, familyFlags)]
    /\ UNCHANGED <<pc, enableValidationLayers, driver, m_phyDevice, queueFamilyIndex,
                   acquired, released, steps, exception, failure, stderr, exitStatus>>

CallFindOptimalPhysicalDevice ==
    /\ LET r == findOptimalPhysicalDevice(vkEnumeratePhysicalDevices, m_phyDevice)
       IN  /\ m_phyDevice' = r.optimalPhyDevice
           /\ probe' = [op |-> "findOptimalPhysicalDevice", found |-> r.found,
                        optimalPhyDevice |-> r.optimalPhyDevice,
                        repeated |-> (probe.op = "findOptimalPhysicalDevice")]
    /\ UNCHANGED <<pc, enableValidationLayers, driver, queueFamilyIndex,
                   acquired, released, steps, exception, failure, stderr, exitStatus>>

CallNext ==
    \/ CallFindQueueFamily
    \/ CallFindOptimalPhysicalDevice

CallSpec == Init /\ [][CallNext]_vars

----------------------------------------------------------------------------
(* What the specification says of selection *)

\* the requirement mask device selection passes to findQueueFamily
Requirement == BitOr(VK_QUEUE_GRAPHICS_BIT, VK_QUEUE_TRANSFER_BIT)

\* a family satisfies a requirement: count > 0 and capabilities a superset of it
Satisfies(family, requirement) ==
    /\ family.queueCount > 0
    /\ BitAnd(family.queueFlags, requirement) = requirement

DeviceSatisfies(h, requirement) ==
    \E i \in 1..Len(driver[h]) : Satisfies(driver[h][i], requirement)

SatisfyingDevices == { h \in 1..Len(driver) : DeviceSatisfies(h, Requirement) }

Min(S) == CHOOSE x \in S : \A y \in S : x <= y

Ran(step) == \E i \in 1..Len(steps) : steps[i] = step

Has(seq, x) == \E i \in 1..Len(seq) : seq[i] = x

Reverse(seq) == [i \in 1..Len(seq) |-> seq[Len(seq) + 1 - i]]

IsPrefix(s, t) == Len(s) <= Len(t) /\ \A i \in 1..Len(s) : s[i] = t[i]

----------------------------------------------------------------------------
(* C1..C4, C8: selection *)

\* C1: once selection has run on a device list in which some device has a
\* queue family satisfying the requirement mask, the selected device is the
\* first such device in enumeration order.
C1_FirstFit ==
    (Ran("findOptimalPhysicalDevice") /\ SatisfyingDevices # {})
        => m_phyDevice = Min(SatisfyingDevices)

\* C2: a device is selected only if one of its queue families has count > 0
\* and capabilities that are a superset of the whole requirement mask.
C2_SelectedSatisfies ==
    m_phyDevice # VK_NULL_HANDLE => DeviceSatisfies(m_phyDevice, Requirement)

\* C3: when no device has a queue family satisfying the requirement,
\* getPhysicalDevice leaves m_phyDevice VK_NULL_HANDLE, raises the
\* no-suitable-device error, and createLogicalDevice is never reached.
C3_NoDeviceFails ==
    (Ran("enumeratePhysicalDevices") /\ SatisfyingDevices = {})
        => /\ m_phyDevice = VK_NULL_HANDLE
           /\ failure = "NoSuitableDevice"
           /\ ~ Ran("createLogicalDevice")

\* C4: with a requirement mask of zero, findQueueFamily returns the index of
\* the first queue family with count > 0, whatever its capability bits, and
\* "not found" only when every family has count 0.
C4_ZeroMask ==
    (probe.op = "findQueueFamily" /\ probe.familyFlags = 0)
        => LET families == driver[probe.phyDevice]
               nonEmpty == { i \in 1..Len(families) : families[i].queueCount > 0 }
           IN  probe.index = IF nonEmpty = {} THEN -1 ELSE Min(nonEmpty) - 1

\* C8: the queueFamilyIndex createLogicalDevice passes is the index selection
\* found for m_phyDevice: a valid index of a family with count > 0 and the
\* required capabilities, never the not-found sentinel.
C8_QueueFamilyIndex ==
    Ran("createLogicalDevice")
        => /\ queueFamilyIndex = ToUint32(findQueueFamily(m_phyDevice, Requirement))
           /\ queueFamilyIndex.hi = 0
           /\ queueFamilyIndex.lo < Len(driver[m_phyDevice])
           /\ Satisfies(driver[m_phyDevice][queueFamilyIndex.lo + 1], Requirement)

----------------------------------------------------------------------------
(* C5, C6: release of resources *)

\* C5: when the process has exited after a failed initialization step, every
\* resource acquired before the failure has been released, in reverse order
\* of acquisition.
C5_ReleaseOnFailure ==
    (pc = "exited" /\ failure # NoException) => released = Reverse(acquired)

\* C6: once cleanup has run, the resources released are exactly the resources
\* acquired, each once, in reverse order of acquisition (device, callback,
\* instance, window), and the debug callback is among them only if it was
\* installed, which happens only in a validation build; before cleanup
\* nothing is released.
C6_ReleaseOnShutdown ==
    /\ Ran("cleanup")
          => /\ released = Reverse(acquired)
             /\ \A i, j \in 1..Len(released) : released[i] = released[j] => i = j
             /\ Has(released, "callback")
                   => (enableValidationLayers /\ Has(acquired, "callback"))
             /\ released[1] = "device"
             /\ Has(released, "instance") /\ Has(released, "window")
    /\ ~ Ran("cleanup") => released = <<>>

C6_Witness ==
    /\ pc = "exited"
    /\ Ran("cleanup")
    /\ enableValidationLayers
    /\ released = <<"device", "callback", "instance", "window", "glfw">>

----------------------------------------------------------------------------
(* C7: order of the bootstrap steps *)

ExpectedSteps ==
    <<"initWindow", "createInstance">>
    \o (IF enableValidationLayers THEN <<"createDebugCallback">> ELSE <<>>)
    \o <<"enumeratePhysicalDevices", "findOptimalPhysicalDevice",
         "createLogicalDevice", "mainLoop", "cleanup">>

FailingSteps(kind) ==
    CASE kind = "ValidationLayerUnavailable" -> {"createInstance"}
      [] kind = "InstanceCreationFailed" -> {"createInstance"}
      [] kind = "DebugCallbackInstallFailed" -> {"createDebugCallback"}
      [] kind = "NoSuitableDevice" ->
             {"enumeratePhysicalDevices", "findOptimalPhysicalDevice"}
      [] kind = "LogicalDeviceCreationFailed" -> {"createLogicalDevice"}
      [] OTHER -> {}

\* C7: the steps started so far are always an initial part of the order
\* create instance, install debug callback (validation builds only), enumerate
\* devices, select device, create logical device, main loop, cleanup, each
\* started once; and once a step has failed, that step is the last one
\* started: no later step and no main loop follows.
C7_BootstrapOrder ==
    /\ IsPrefix(steps, ExpectedSteps)
    /\ failure # NoException
          => /\ steps # <<>>
             /\ steps[Len(steps)] \in FailingSteps(failure)
             /\ ~ Ran("mainLoop")

C7_Witness ==
    /\ pc = "exited"
    /\ enableValidationLayers
    /\ failure = "LogicalDeviceCreationFailed"
    /\ steps = <<"initWindow", "createInstance", "createDebugCallback",
                 "enumeratePhysicalDevices", "findOptimalPhysicalDevice",
                 "createLogicalDevice">>

----------------------------------------------------------------------------
(* C9: exit status and error message *)

\* the what() strings of the throw statements, by kind of failure
ErrorMessages(kind) ==
    CASE kind = "ValidationLayerUnavailable" ->
             {"validation layers requested, but not available!"}
      [] kind = "InstanceCreationFailed" -> {"failed to create instance!"}
      [] kind = "DebugCallbackInstallFailed" -> {"failed to set up debug callback!"}
      [] kind = "NoSuitableDevice" ->
             {"failed to find any GPU with Vulkan support!",
              "failed to find a suitable GPU!"}
      [] kind = "LogicalDeviceCreationFailed" -> {"failed to create logical device!"}
      [] OTHER -> {}

FailureKinds ==
    {"ValidationLayerUnavailable", "InstanceCreationFailed",
     "DebugCallbackInstallFailed", "NoSuitableDevice", "LogicalDeviceCreationFailed"}

\* C9: the process exits with a non-zero status exactly when a bootstrap step
\* failed, and then the last line on the error channel is a message of that
\* kind of failure, the messages of different kinds being different; it exits
\* with status 0 only after initialization succeeded, the main loop ended and
\* cleanup ran, and then no failure message was written.
C9_ExitStatus ==
    /\ pc # "exited" => exitStatus = Running
    /\ pc = "exited"
          => /\ exitStatus \in {EXIT_SUCCESS, EXIT_FAILURE}
             /\ (exitStatus # EXIT_SUCCESS) <=> (failure \in FailureKinds)
             /\ (exitStatus = EXIT_SUCCESS) <=> (failure = NoException)
             /\ exitStatus # EXIT_SUCCESS
                   => /\ stderr # <<>>
                      /\ stderr[Len(stderr)] \in ErrorMessages(failure)
                      /\ \A k \in FailureKinds \ {failure} :
                            stderr[Len(stderr)] \notin ErrorMessages(k)
             /\ exitStatus = EXIT_SUCCESS
                   => /\ Has(acquired, "device")
                      /\ Ran("mainLoop")
                      /\ steps[Len(steps)] = "cleanup"
                      /\ \A i \in 1..Len(stderr), k \in FailureKinds :
                            stderr[i] \notin ErrorMessages(k)

C9_Witness ==
    /\ pc = "exited"
    /\ exitStatus = EXIT_FAILURE
    /\ failure = "NoSuitableDevice"
    /\ stderr = <<"validation layer: msg", "failed to find a suitable GPU!">>

----------------------------------------------------------------------------
(* C10: selection is idempotent and changes nothing but its output *)

\* C10: a call of findQueueFamily or findOptimalPhysicalDevice leaves the
\* driver's state and every field but the selected-device slot unchanged;
\* findOptimalPhysicalDevice leaves the slot unchanged when it fails and
\* holding the device it reports when it succeeds; and a call repeated on the
\* unchanged driver returns what the call before it returned.
C10_Idempotent ==
    [][ /\ driver' = driver
        /\ UNCHANGED <<pc, enableValidationLayers, queueFamilyIndex, acquired,
                       released, steps, exception, failure, stderr, exitStatus>>
        /\ probe'.op = "findQueueFamily"
              => /\ m_phyDevice' = m_phyDevice
                 /\ (/\ probe.op = "findQueueFamily"
                     /\ probe.phyDevice = probe'.phyDevice
                     /\ probe.familyFlags = probe'.familyFlags)
                       => probe'.index = probe.index
        /\ probe'.op = "findOptimalPhysicalDevice"
              => /\ ~ probe'.found => m_phyDevice' = m_phyDevice
                 /\ probe'.found => m_phyDevice' = probe'.optimalPhyDevice
                 /\ probe'.repeated
                       => /\ probe'.found = probe.found
                          /\ m_phyDevice' = m_phyDevice
                 /\ m_phyDevice # VK_NULL_HANDLE
                       => (probe'.found /\ m_phyDevice' = m_phyDevice)
      ]_vars

C10_Witness ==
    /\ probe.op = "findOptimalPhysicalDevice"
    /\ probe.repeated
    /\ probe.found
    /\ m_phyDevice = 2

====
